---- MODULE Spec2Model ----
(***************************************************************************)
(* A model of diff_cover/diff_cover_tool.py: the command line entry point  *)
(* main, the report pipeline generate_coverage_report, and the directory   *)
(* comparison FileDiffReporter._git_diff.compare.                          *)
(*                                                                         *)
(* Spec      the pipeline: parse_coverage_args, generate_coverage_report   *)
(*           and the gate of main, one action per block of the code.       *)
(* SpecDir   the loop of compare() over the result of difile's             *)
(*           compare_dir, one action per iteration.                        *)
(* SpecMerge the coverage model built from the coverage_xml inputs and the *)
(*           per-file correlation with the diff.                           *)
(* SpecCorr  the aggregate result over several files.                      *)
(*                                                                         *)
(* XmlCoverageReporter and the report generators are imported by the tool  *)
(* from modules of the package that are not part of the source tree at     *)
(* hand; their definitions follow sections 3 and 4 of the specification.   *)
(***************************************************************************)
EXTENDS Integers, Sequences, FiniteSets, TLC

VARIABLES
    \* ---- the pipeline (Spec)
    pc,               \* the position in main / generate_coverage_report
    entry,            \* "main" or "generate_coverage_report" (called directly)
    arg_dict,         \* the arguments of the run
    diff,             \* the class of the diff reporter built
    written,          \* the artifacts written so far, in order
    log,              \* the messages LOGGER.error emitted (the threshold named)
    reporter,         \* the generator the name `reporter` is bound to
    percent_covered,  \* <<>> or <<p>>: the value generate_coverage_report returned
    raised,           \* the exception that ended the run, or "none"
    returned,         \* <<>> or <<code>>: what main returned
    \* ---- the directory comparison (SpecDir)
    target_dir,       \* str(self.target_dir), a string of characters
    src_root,         \* src_roots[0], a string of characters
    result,           \* the part of compare_dir's result the loop has consumed
    diff_result,      \* the dict under construction, as a set of (key, list) pairs
    \* ---- the coverage merge (SpecMerge)
    mstage,           \* "input", "merged", "correlated"
    coverage_xml,     \* the parsed coverage inputs, in argument order
    changed,          \* the changed lines of the file in the diff
    coverage,         \* the merged coverage entry of the file
    file_result,      \* the FileCoverageResult of the file
    \* ---- the aggregate (SpecCorr)
    cstage,           \* "input", "computed"
    diff_model,       \* path -> set of changed lines
    coverage_model,   \* path -> merged coverage entry
    aggregate         \* the AggregateResult

pvars == <<pc, entry, arg_dict, diff, written, log, reporter, percent_covered,
           raised, returned>>
dvars == <<target_dir, src_root, result, diff_result>>
mvars == <<mstage, coverage_xml, changed, coverage, file_result>>
cvars == <<cstage, diff_model, coverage_model, aggregate>>
vars == <<pvars, dvars, mvars, cvars>>

-----------------------------------------------------------------------------
(* Bounds *)

\* the longest list of coverage_xml arguments of a pipeline run
MaxReports == 3
\* the most changed lines the correlation of a pipeline run counts
MaxChanged == 3

-----------------------------------------------------------------------------
(* Values *)

None == "None"

\* A percentage is a number of tenths of a percent: 667 is 66.7.
\* The values of --fail-under tried: the default 0, values a percentage can
\* equal, and one above 100.
FailUnders == {0, 500, 800, 1000, 1005}

\* A coverage_xml argument names a file that parses ("ok") or one that is
\* malformed or unreadable ("bad").
XmlArgs == {"ok", "bad"}

XmlArgLists == UNION {[1..n -> XmlArgs] : n \in 1..MaxReports}

RECURSIVE Count(_, _)
Count(s, x) ==
    IF s = <<>> THEN 0
    ELSE (IF Head(s) = x THEN 1 ELSE 0) + Count(Tail(s), x)

-----------------------------------------------------------------------------
(* report_generator: the aggregate percentage (specification, section 3) *)

\* The percentage with no rule for an empty total.
total_percent_unguarded(covered, total) ==
    IF total = 0 THEN 0 ELSE (2 * 1000 * covered + total) \div (2 * total)

\* percentage = covered / total * 100, to one decimal place, and 100 when
\* total = 0.
total_percent_covered(covered, total) ==
    IF total = 0 THEN 1000
    ELSE (2 * 1000 * covered + total) \div (2 * total)


-----------------------------------------------------------------------------
(* The pipeline: main and generate_coverage_report *)

\* An option is TRUE when the run supplies a value for it (a path, not None
\* and not the empty string), FALSE when it is left at its default.
ArgDicts ==
    [coverage_xml : XmlArgLists,
     html_report : BOOLEAN,
     json_report : BOOLEAN,
     external_css_file : BOOLEAN,
     target_dir : BOOLEAN,
     diff_json : BOOLEAN,
     fail_under : FailUnders]

\* The idle values of the pipeline's variables under the other specifications.
PipelineIdle ==
    /\ pc = "idle"
    /\ entry = "none"
    /\ arg_dict = [coverage_xml |-> <<"ok">>, html_report |-> FALSE,
                   json_report |-> FALSE, external_css_file |-> FALSE,
                   target_dir |-> FALSE, diff_json |-> FALSE, fail_under |-> 0]
    /\ diff = None
    /\ written = <<>>
    /\ log = <<>>
    /\ reporter = None
    /\ percent_covered = <<>>
    /\ raised = "none"
    /\ returned = <<>>

\* A run starts in main, on a command line, or in generate_coverage_report,
\* called with keyword arguments (fail_under is main's alone).
PipelineInit ==
    /\ entry \in {"main", "generate_coverage_report"}
    /\ arg_dict \in ArgDicts
    /\ entry = "generate_coverage_report" => arg_dict.fail_under = 0
    /\ pc = IF entry = "main" THEN "parse_coverage_args" ELSE "build_diff"
    /\ diff = None
    /\ written = <<>>
    /\ log = <<>>
    /\ reporter = None
    /\ percent_covered = <<>>
    /\ raised = "none"
    /\ returned = <<>>

\* parse_coverage_args: --html-report and --json-report are one mutually
\* exclusive group, so a command line with both ends in parser.error, which
\* raises SystemExit; any other command line gives the dict of its options.
parse_coverage_args ==
    /\ pc = "parse_coverage_args"
    /\ IF arg_dict.html_report /\ arg_dict.json_report
       THEN /\ pc' = "exit"
            /\ raised' = "SystemExit"
       ELSE /\ pc' = "build_diff"
            /\ raised' = raised
    /\ UNCHANGED <<entry, arg_dict, diff, written, log, reporter,
                   percent_covered, returned>>
    /\ UNCHANGED <<dvars, mvars, cvars>>

\* generate_coverage_report, `if target_dir: ... else: ...`: the diff reporter
\* is a FileDiffReporter in directory-comparison mode, a GitDiffReporter
\* otherwise. Neither constructor writes anything.
BuildDiff ==
    /\ pc = "build_diff"
    /\ diff' = IF arg_dict.target_dir THEN "FileDiffReporter" ELSE "GitDiffReporter"
    /\ pc' = "parse_xml"
    /\ UNCHANGED <<entry, arg_dict, written, log, reporter, percent_covered,
                   raised, returned>>
    /\ UNCHANGED <<dvars, mvars, cvars>>

\* ParseXml with the malformed inputs skipped instead of raising.
ParseXmlSkipBad ==
    /\ pc = "parse_xml"
    /\ pc' = "diff_json"
    /\ UNCHANGED <<entry, arg_dict, diff, written, log, reporter,
                   percent_covered, raised, returned>>
    /\ UNCHANGED <<dvars, mvars, cvars>>

\* xml_roots = [etree.parse(xml_root) for xml_root in coverage_xml]: the whole
\* list is parsed here, and etree.parse raises on the first input that is
\* malformed or unreadable; nothing catches it.
ParseXml ==
    /\ pc = "parse_xml"
    /\ IF \E i \in DOMAIN arg_dict.coverage_xml : arg_dict.coverage_xml[i] = "bad"
       THEN /\ pc' = "exit"
            /\ raised' = "ParseError"
       ELSE /\ pc' = "diff_json"
            /\ raised' = raised
    /\ UNCHANGED <<entry, arg_dict, diff, written, log, reporter,
                   percent_covered, returned>>
    /\ UNCHANGED <<dvars, mvars, cvars>>

\* `if diff_json:` the diff dict is dumped to the side-channel file.
WriteDiffJson ==
    /\ pc = "diff_json"
    /\ written' = IF arg_dict.diff_json THEN Append(written, "diff_json")
                  ELSE written
    /\ pc' = "report"
    /\ UNCHANGED <<entry, arg_dict, diff, log, reporter, percent_covered,
                   raised, returned>>
    /\ UNCHANGED <<dvars, mvars, cvars>>

\* `if html_report is not None: ... elif json_report is not None: ...`.
BuildReport ==
    /\ pc = "report"
    /\ IF arg_dict.html_report
       THEN /\ reporter' = "HtmlReportGenerator"
            /\ written' = written \o <<"html">>
                   \o (IF arg_dict.external_css_file THEN <<"css">> ELSE <<>>)
       ELSE IF arg_dict.json_report
       THEN /\ reporter' = "JsonReportGenerator"
            /\ written' = Append(written, "json")
       ELSE /\ reporter' = reporter
            /\ written' = written
    /\ pc' = "string_report"
    /\ UNCHANGED <<entry, arg_dict, diff, log, percent_covered, raised, returned>>
    /\ UNCHANGED <<dvars, mvars, cvars>>

\* StringReport as the last branch of the if/elif chain: the text goes to
\* standard output only when no report file was asked for.
StringReportElse ==
    /\ pc = "string_report"
    /\ \E total \in 0..MaxChanged : \E covered \in 0..total :
          percent_covered' = <<total_percent_covered(covered, total)>>
    /\ IF reporter = None
       THEN /\ reporter' = "StringReportGenerator"
            /\ written' = Append(written, "stdout")
       ELSE /\ reporter' = reporter
            /\ written' = written
    /\ pc' = IF entry = "main" THEN "gate" ELSE "exit"
    /\ UNCHANGED <<entry, arg_dict, diff, log, raised, returned>>
    /\ UNCHANGED <<dvars, mvars, cvars>>

\* reporter = StringReportGenerator(coverage, diff); generate_report(stdout);
\* return reporter.total_percent_covered(). The counts the correlation found
\* are any covered <= total.
StringReport ==
    /\ pc = "string_report"
    /\ reporter' = "StringReportGenerator"
    /\ written' = Append(written, "stdout")
    /\ \E total \in 0..MaxChanged : \E covered \in 0..total :
          percent_covered' = <<total_percent_covered(covered, total)>>
    /\ pc' = IF entry = "main" THEN "gate" ELSE "exit"
    /\ UNCHANGED <<entry, arg_dict, diff, log, raised, returned>>
    /\ UNCHANGED <<dvars, mvars, cvars>>

\* Gate with a strict comparison.
GateStrict ==
    /\ pc = "gate"
    /\ IF percent_covered[1] > arg_dict.fail_under
       THEN /\ returned' = <<0>>
            /\ log' = log
       ELSE /\ returned' = <<1>>
            /\ log' = Append(log, arg_dict.fail_under)
    /\ pc' = "exit"
    /\ UNCHANGED <<entry, arg_dict, diff, written, reporter, percent_covered, raised>>
    /\ UNCHANGED <<dvars, mvars, cvars>>

\* Gate with the failure not reported.
GateSilent ==
    /\ pc = "gate"
    /\ returned' = IF percent_covered[1] >= arg_dict.fail_under THEN <<0>> ELSE <<1>>
    /\ pc' = "exit"
    /\ UNCHANGED <<entry, arg_dict, diff, written, log, reporter, percent_covered,
                   raised>>
    /\ UNCHANGED <<dvars, mvars, cvars>>

\* main, `if percent_covered >= fail_under: return 0` and else the error
\* message "Failure. Coverage is below {fail_under}%." and return 1.
Gate ==
    /\ pc = "gate"
    /\ IF percent_covered[1] >= arg_dict.fail_under
       THEN /\ returned' = <<0>>
            /\ log' = log
       ELSE /\ returned' = <<1>>
            /\ log' = Append(log, arg_dict.fail_under)
    /\ pc' = "exit"
    /\ UNCHANGED <<entry, arg_dict, diff, written, reporter, percent_covered, raised>>
    /\ UNCHANGED <<dvars, mvars, cvars>>

PipelineNext ==
    \/ parse_coverage_args
    \/ BuildDiff
    \/ ParseXml
    \/ WriteDiffJson
    \/ BuildReport
    \/ StringReport
    \/ Gate

-----------------------------------------------------------------------------
(* Strings, as Python's str methods compute on them *)

\* A string is a sequence of characters; a path is a sequence of components.
t == <<"t">>
tt == <<"t", "t">>
x == <<"x">>

\* PurePath.as_posix: the components joined by "/".
RECURSIVE as_posix(_)
as_posix(parts) ==
    IF Len(parts) = 1 THEN parts[1]
    ELSE parts[1] \o <<"/">> \o as_posix(Tail(parts))

\* str.startswith
startswith(s, prefix) ==
    /\ Len(prefix) <= Len(s)
    /\ SubSeq(s, 1, Len(prefix)) = prefix

\* str.replace(old, new) for a non-empty old: every occurrence, found from
\* the left and not overlapping, is replaced.
RECURSIVE replace(_, _, _)
replace(s, old, new) ==
    IF Len(s) < Len(old) THEN s
    ELSE IF startswith(s, old)
    THEN new \o replace(SubSeq(s, Len(old) + 1, Len(s)), old, new)
    ELSE <<Head(s)>> \o replace(Tail(s), old, new)

RECURSIVE SortedSeq(_)
SortedSeq(S) ==
    IF S = {} THEN <<>>
    ELSE LET m == CHOOSE m \in S : \A y \in S : m <= y
         IN <<m>> \o SortedSeq(S \ {m})

-----------------------------------------------------------------------------
(* The directory comparison: FileDiffReporter._git_diff.compare *)

\* the most lists compare_dir returns in one run
MaxFiles == 2
\* the number of lines of a compared file
FileLines == 2

\* The directories compared: src_roots[0] against target_dir.
TargetDirs == {t, tt}
SrcRoots == {t, tt, x}

\* The paths of the compared files below either directory.
RelPaths == {<<x>>, <<t, x>>, <<x, t, x>>, <<x, x>>}

\* The line numbers compare_dir reports for one file: any non-empty part of
\* the file's lines, in increasing order.
LineNos == {SortedSeq(S) : S \in (SUBSET (1..FileLines)) \ {{}}}

\* One element of compare_dir's result: the Line objects of one file, of
\* either tree. Each carries the file's path and a line number.
EachFiles(src, td) ==
    {[i \in 1..Len(ln) |-> [file_path |-> <<root>> \o rel, line_no |-> ln[i]]] :
        root \in {src, td}, rel \in RelPaths, ln \in LineNos}

\* key = each_file[0].file_path.as_posix()
\* if key.startswith(str(self.target_dir)):
\*     key = key.replace(str(self.target_dir) + "/", "")
key_of(each_file, td) ==
    LET key == as_posix(each_file[1].file_path)
    IN IF startswith(key, td) THEN replace(key, td \o <<"/">>, <<>>) ELSE key

\* d[key] = value on a dict.
SetItem(d, key, value) ==
    [k \in DOMAIN d \cup {key} |-> IF k = key THEN value ELSE d[k]]

line_nos(each_file) == [i \in 1..Len(each_file) |-> each_file[i].line_no]

\* One iteration with the list of the key started afresh for every file.
store_reset(d, each_file, td) ==
    IF each_file = <<>> THEN d
    ELSE SetItem(d, key_of(each_file, td), line_nos(each_file))

\* One iteration of `for each_file in result:` on diff_result.
store(d, each_file, td) ==
    IF each_file = <<>> THEN d
    ELSE LET key == key_of(each_file, td)
             old == IF key \in DOMAIN d THEN d[key] ELSE <<>>
         IN SetItem(d, key, old \o line_nos(each_file))

Paths(res) == {res[i][1].file_path : i \in {j \in DOMAIN res : res[j] # <<>>}}

DirIdle ==
    /\ target_dir = <<>>
    /\ src_root = <<>>
    /\ result = <<>>
    /\ diff_result = <<>>

\* compare(src_roots[0], self.target_dir) starts with an empty dict.
DirInit ==
    /\ target_dir \in TargetDirs
    /\ src_root \in SrcRoots \ {target_dir}
    /\ result = <<>>
    /\ diff_result = <<>>

\* The loop meets an empty list: `if not each_file: continue`.
CompareEmpty ==
    /\ target_dir # <<>>
    /\ Len(result) < MaxFiles
    /\ result' = Append(result, <<>>)
    /\ diff_result' = store(diff_result, <<>>, target_dir)
    /\ UNCHANGED <<target_dir, src_root>>
    /\ UNCHANGED <<pvars, mvars, cvars>>

\* The loop meets the lines of a file; compare_dir reports a file once.
CompareFile ==
    /\ target_dir # <<>>
    /\ Len(result) < MaxFiles
    /\ \E each_file \in EachFiles(src_root, target_dir) :
          /\ each_file[1].file_path \notin Paths(result)
          /\ result' = Append(result, each_file)
          /\ diff_result' = store(diff_result, each_file, target_dir)
    /\ UNCHANGED <<target_dir, src_root>>
    /\ UNCHANGED <<pvars, mvars, cvars>>

DirNext == CompareEmpty \/ CompareFile

-----------------------------------------------------------------------------
(* The coverage model and the correlation (specification, sections 3, 4) *)

\* the number of lines of a source file in a merge
MaxMergeLine == 1
\* the number of lines of a source file in the aggregate
MaxLine == 2

Statuses == {"hit", "miss", "not-instrumented"}

\* What one coverage report says of one file: <<>> when it has no entry for
\* the file, and the status of each of the file's lines otherwise.
Entries(n) == {<<>>} \cup [1..n -> Statuses]

hit_status(cov, line) ==
    IF line \in DOMAIN cov THEN cov[line] ELSE "not-instrumented"

\* Two statuses of one line merged: hit if either is hit.
MergeStatus(a, b) ==
    IF "hit" \in {a, b} THEN "hit"
    ELSE IF "miss" \in {a, b} THEN "miss"
    ELSE "not-instrumented"

\* Two entries of one file merged, line by line.
Merge2(a, b) ==
    [l \in DOMAIN a \cup DOMAIN b |-> MergeStatus(hit_status(a, l), hit_status(b, l))]

\* XmlCoverageReporter(xml_roots, src_roots): the entry of the file, merged
\* over the report trees.
RECURSIVE XmlCoverageReporter(_)
XmlCoverageReporter(xml_roots) ==
    IF xml_roots = <<>> THEN <<>>
    ELSE Merge2(Head(xml_roots), XmlCoverageReporter(Tail(xml_roots)))

\* The list built with only the first input parsed.
XmlRootsFirstOnly(paths) == <<paths[1]>>

\* xml_roots = [etree.parse(xml_root) for xml_root in coverage_xml]: one tree
\* for each input, in the order of the arguments.
XmlRoots(paths) == [i \in 1..Len(paths) |-> paths[i]]

\* The result of a file with only its instrumented changed lines counted.
FileCoverageMeasured(lines, cov) ==
    LET measured == {l \in lines : hit_status(cov, l) # "not-instrumented"}
        hits == {l \in lines : hit_status(cov, l) = "hit"}
    IN IF measured = {} THEN <<>>
       ELSE <<[total |-> Cardinality(measured),
               covered |-> Cardinality(hits),
               violations |-> SortedSeq(measured \ hits),
               percentage |-> total_percent_covered(Cardinality(hits),
                                                    Cardinality(measured))]>>

\* FileCoverageResult of a file with the changed lines `lines`: <<>> when the
\* file has no changed line (it is not reported), else its counts, with the
\* changed lines that are not hit as the violations.
FileCoverageResult(lines, cov) ==
    LET hits == {l \in lines : hit_status(cov, l) = "hit"}
    IN IF lines = {} THEN <<>>
       ELSE <<[total |-> Cardinality(lines),
               covered |-> Cardinality(hits),
               violations |-> SortedSeq(lines \ hits),
               percentage |-> total_percent_covered(Cardinality(hits),
                                                    Cardinality(lines))]>>

MergeIdle ==
    /\ mstage = "idle"
    /\ coverage_xml = <<>>
    /\ changed = {}
    /\ coverage = <<>>
    /\ file_result = <<>>

MergeInit ==
    /\ mstage = "input"
    /\ coverage_xml \in UNION {[1..n -> Entries(MaxMergeLine)] : n \in 1..MaxReports}
    /\ changed \in SUBSET (1..MaxMergeLine)
    /\ coverage = <<>>
    /\ file_result = <<>>

\* coverage = XmlCoverageReporter(xml_roots, src_roots)
MergeReports ==
    /\ mstage = "input"
    /\ coverage' = XmlCoverageReporter(XmlRoots(coverage_xml))
    /\ mstage' = "merged"
    /\ UNCHANGED <<coverage_xml, changed, file_result>>
    /\ UNCHANGED <<pvars, dvars, cvars>>

\* The report generator correlates the diff with the coverage.
Correlate ==
    /\ mstage = "merged"
    /\ file_result' = FileCoverageResult(changed, coverage)
    /\ mstage' = "correlated"
    /\ UNCHANGED <<coverage_xml, changed, coverage>>
    /\ UNCHANGED <<pvars, dvars, cvars>>

MergeNext == MergeReports \/ Correlate

\* The files of the aggregate.
SrcPaths == {"a.py", "b.py"}

RECURSIVE Sum(_, _)
Sum(f, S) ==
    IF S = {} THEN 0
    ELSE LET e == CHOOSE e \in S : TRUE IN f[e] + Sum(f, S \ {e})

\* The changed lines of a file that some report instruments.
Instrumented(dm, cm, f) ==
    {l \in dm[f] : hit_status(cm[f], l) # "not-instrumented"}

\* AggregateResult: the sums over the files with at least one changed,
\* instrumented line.
AggregateResult(dm, cm) ==
    LET counted == {f \in SrcPaths : Instrumented(dm, cm, f) # {}}
        total == Sum([f \in SrcPaths |-> Cardinality(dm[f])], counted)
        covered == Sum([f \in SrcPaths |->
                          Cardinality({l \in dm[f] : hit_status(cm[f], l) = "hit"})],
                       counted)
    IN [total |-> total, covered |-> covered,
        percentage |-> total_percent_covered(covered, total)]

CorrIdle ==
    /\ cstage = "idle"
    /\ diff_model = <<>>
    /\ coverage_model = <<>>
    /\ aggregate = <<>>

CorrInit ==
    /\ cstage = "input"
    /\ diff_model \in [SrcPaths -> SUBSET (1..MaxLine)]
    /\ coverage_model \in [SrcPaths -> Entries(MaxLine)]
    /\ aggregate = <<>>

\* compute(diff_model, coverage_model)
Compute ==
    /\ cstage = "input"
    /\ aggregate' = <<AggregateResult(diff_model, coverage_model)>>
    /\ cstage' = "computed"
    /\ UNCHANGED <<diff_model, coverage_model>>
    /\ UNCHANGED <<pvars, dvars, mvars>>

CorrNext == Compute

-----------------------------------------------------------------------------
(* Specifications *)

Init == PipelineInit /\ DirIdle /\ MergeIdle /\ CorrIdle
Next == PipelineNext
Spec == Init /\ [][Next]_vars

InitDir == DirInit /\ PipelineIdle /\ MergeIdle /\ CorrIdle
NextDir == DirNext
SpecDir == InitDir /\ [][NextDir]_vars

InitMerge == MergeInit /\ PipelineIdle /\ DirIdle /\ CorrIdle
NextMerge == MergeNext
SpecMerge == InitMerge /\ [][NextMerge]_vars

InitCorr == CorrInit /\ PipelineIdle /\ DirIdle /\ MergeIdle
NextCorr == CorrNext
SpecCorr == InitCorr /\ [][NextCorr]_vars


-----------------------------------------------------------------------------
(* The claims *)

Malformed == \E i \in DOMAIN arg_dict.coverage_xml : arg_dict.coverage_xml[i] = "bad"

\* Every artifact the arguments ask for is written, and the text once.
AllReportsWritten ==
    /\ Count(written, "stdout") = 1
    /\ arg_dict.diff_json => Count(written, "diff_json") = 1
    /\ arg_dict.html_report => Count(written, "html") = 1
    /\ (arg_dict.html_report /\ arg_dict.external_css_file) => Count(written, "css") = 1
    /\ (arg_dict.json_report /\ ~arg_dict.html_report) => Count(written, "json") = 1

\* C1: when main has returned, the code is 0 or 1, and it is 0 exactly when
\* the percentage generate_coverage_report returned is at least fail_under.
C1_ExitCodeIffAtLeastThreshold ==
    returned # <<>> =>
        /\ percent_covered # <<>>
        /\ returned \in {<<0>>, <<1>>}
        /\ returned = <<0>> <=> percent_covered[1] >= arg_dict.fail_under

\* C1, witness: a run passes with the percentage equal to a threshold above 0.
C1_PassAtThreshold ==
    /\ returned = <<0>>
    /\ arg_dict.fail_under = 500
    /\ percent_covered = <<500>>

\* C2: in a run given both html_report and json_report, it never happens
\* that one of the two report files is written and the other is not.
C2_BothNeverPicksOne ==
    (arg_dict.html_report /\ arg_dict.json_report) =>
        (Count(written, "html") > 0 <=> Count(written, "json") > 0)

\* C3: standard output is never written twice, and once
\* generate_coverage_report has returned it has been written exactly once,
\* after the HTML file (with its CSS file) or the JSON file the arguments
\* select, and the value returned is the StringReportGenerator's.
C3_StdoutAlwaysOnce ==
    /\ Count(written, "stdout") <= 1
    /\ percent_covered # <<>> =>
          /\ Count(written, "stdout") = 1
          /\ written[Len(written)] = "stdout"
          /\ reporter = "StringReportGenerator"
          /\ arg_dict.html_report => Count(written, "html") = 1
          /\ (arg_dict.html_report /\ arg_dict.external_css_file)
                => Count(written, "css") = 1
          /\ (arg_dict.json_report /\ ~arg_dict.html_report)
                => Count(written, "json") = 1

\* C3, witness: a completed run that wrote an HTML report, its CSS file and
\* the text.
C3_HtmlAndStdout ==
    /\ percent_covered # <<>>
    /\ arg_dict.html_report
    /\ written = <<"html", "css", "stdout">>

\* C4: in a run with a malformed or unreadable coverage input nothing is ever
\* written, generate_coverage_report returns no percentage and main returns
\* no code; the run ends with an exception.
C4_MalformedAbortsBeforeOutput ==
    Malformed =>
        /\ written = <<>>
        /\ percent_covered = <<>>
        /\ returned = <<>>
        /\ pc = "exit" => raised # "none"

\* C4, witness: the second input is malformed, in directory-comparison mode
\* with every output asked for, and the parse has raised.
C4_SecondInputBad ==
    /\ raised = "ParseError"
    /\ arg_dict.coverage_xml = <<"ok", "bad">>
    /\ arg_dict.target_dir
    /\ arg_dict.diff_json
    /\ arg_dict.html_report
    /\ arg_dict.external_css_file

\* C9: the error message is logged exactly in the runs where main returns 1;
\* it names fail_under, the percentage is below fail_under, and every report
\* of the run has been written by then and none is written after; a run that
\* returns 0 has logged nothing.
C9_FailureMessageIffExitOne ==
    /\ log # <<>> <=> returned = <<1>>
    /\ returned = <<0>> => log = <<>>
    /\ log # <<>> =>
          /\ log = <<arg_dict.fail_under>>
          /\ percent_covered[1] < arg_dict.fail_under
          /\ AllReportsWritten
          /\ pc = "exit"

\* C9, witness: a run with a JSON report fails the threshold 80.
C9_FailsUnder80 ==
    /\ returned = <<1>>
    /\ log = <<800>>
    /\ percent_covered = <<667>>
    /\ written = <<"json", "stdout">>

\* The files consumed so far, in order.
Consumed == {i \in DOMAIN result : result[i] # <<>>}

\* The concatenation of the line numbers of the files consumed that are
\* stored under `key`, in the order of the result.
RECURSIVE LinesUnder(_, _)
LinesUnder(res, key) ==
    IF res = <<>> THEN <<>>
    ELSE LET last == res[Len(res)]
             front == LinesUnder(SubSeq(res, 1, Len(res) - 1), key)
         IN IF last # <<>> /\ key_of(last, target_dir) = key
            THEN front \o line_nos(last)
            ELSE front

Range(s) == {s[i] : i \in DOMAIN s}

\* C8, as stated: the line numbers stored under the key of every file
\* consumed are all the lines of the file.
C8_FullFile ==
    \A i \in Consumed :
        /\ key_of(result[i], target_dir) \in DOMAIN diff_result
        /\ Range(diff_result[key_of(result[i], target_dir)]) = 1..FileLines

\* C8, amended: the keys of diff_result are the keys of the files consumed,
\* and the list under a key is the line numbers compare_dir reported for the
\* files of that key, in the order reported, and no other line.
C8_ReportedLinesOnly ==
    /\ DOMAIN diff_result = {key_of(result[i], target_dir) : i \in Consumed}
    /\ \A key \in DOMAIN diff_result : diff_result[key] = LinesUnder(result, key)

\* C8, witness: a file of which compare_dir reported line 2 only is stored
\* with that line alone, after an earlier file whose key is the same.
C8_PartOfFile ==
    /\ Len(result) = 2
    /\ Consumed = {1, 2}
    /\ key_of(result[1], target_dir) = key_of(result[2], target_dir)
    /\ line_nos(result[2]) = <<2>>
    /\ diff_result[key_of(result[2], target_dir)] = line_nos(result[1]) \o <<2>>

\* The components of `path` below target_dir, when it lies under it.
IsUnder(path, td) == Len(path) > 1 /\ path[1] = td

\* The path relative to target_dir: the leading component removed for a path
\* under target_dir, the path as it is otherwise.
RelativeKey(path, td) ==
    IF IsUnder(path, td) THEN as_posix(Tail(path)) ELSE as_posix(path)

\* C10: every file consumed is stored under its path relative to target_dir
\* (unchanged when it is not under target_dir), and distinct files have
\* distinct keys, so the list under the key is the lines of that file alone.
C10_KeyIsRelativePath ==
    \A i \in Consumed :
        LET key == RelativeKey(result[i][1].file_path, target_dir)
        IN /\ key \in DOMAIN diff_result
           /\ diff_result[key] = line_nos(result[i])

Permuted(s, p) == [i \in DOMAIN s |-> s[p[i]]]

\* C7: the merged status of a line is hit exactly when some input marks it
\* hit; merging the inputs in any order, or merging any front part and the
\* rest separately and then the two results, gives the same coverage; and
\* the result of the file is the same for every order of the inputs.
C7_MergeIsUnion ==
    mstage \in {"merged", "correlated"} =>
        /\ \A l \in 1..MaxMergeLine :
              hit_status(coverage, l) = "hit"
                 <=> \E i \in DOMAIN coverage_xml : hit_status(coverage_xml[i], l) = "hit"
        /\ \A p \in Permutations(DOMAIN coverage_xml) :
              /\ XmlCoverageReporter(Permuted(coverage_xml, p)) = coverage
              /\ mstage = "correlated" =>
                    FileCoverageResult(changed,
                        XmlCoverageReporter(Permuted(coverage_xml, p))) = file_result
        /\ \A k \in 0..Len(coverage_xml) :
              Merge2(XmlCoverageReporter(SubSeq(coverage_xml, 1, k)),
                     XmlCoverageReporter(SubSeq(coverage_xml, k + 1, Len(coverage_xml))))
                 = coverage

\* C7, witness: the first input marks the changed line miss, the second hit;
\* the line is merged as hit and the file has no violation.
C7_MissThenHit ==
    /\ mstage = "correlated"
    /\ Len(coverage_xml) >= 2
    /\ coverage_xml[1] = <<"miss">>
    /\ coverage_xml[2] = <<"hit">>
    /\ changed = {1}
    /\ coverage = <<"hit">>
    /\ file_result # <<>>
    /\ file_result[1].violations = <<>>

\* C6: a file with changed lines and no entry in any coverage input is
\* reported, with all its changed lines as its total and as its violations,
\* none covered, and 0 percent.
C6_NoEntryAllViolations ==
    (/\ mstage = "correlated"
     /\ changed # {}
     /\ \A i \in DOMAIN coverage_xml : coverage_xml[i] = <<>>) =>
        /\ file_result # <<>>
        /\ file_result[1].total = Cardinality(changed)
        /\ file_result[1].covered = 0
        /\ file_result[1].violations = SortedSeq(changed)
        /\ file_result[1].percentage = 0

\* C6, witness: two inputs, neither with an entry for the file, whose line 1
\* changed.
C6_UntestedNewFile ==
    /\ mstage = "correlated"
    /\ coverage_xml = <<<<>>, <<>>>>
    /\ changed = {1}
    /\ file_result = <<[total |-> 1, covered |-> 0, violations |-> <<1>>,
                        percentage |-> 0]>>

\* C5: the aggregate percentage is between 0 and 100, and it is 100 when no
\* changed line of any file is instrumented.
C5_PercentageInRange ==
    cstage = "computed" =>
        /\ aggregate[1].percentage \in 0..1000
        /\ (\A f \in SrcPaths : Instrumented(diff_model, coverage_model, f) = {})
              => aggregate[1].percentage = 1000

\* C5, witness: lines changed, none of them instrumented, and 100 percent.
C5_NothingInstrumented ==
    /\ cstage = "computed"
    /\ diff_model["a.py"] # {}
    /\ \A f \in SrcPaths : Instrumented(diff_model, coverage_model, f) = {}
    /\ aggregate[1].total = 0
    /\ aggregate[1].percentage = 1000

=============================================================================
